---------------------------- MODULE Spec2Model ----------------------------
(***************************************************************************)
(* A model of the on-chain helper layer of leo-predict-oracle-dex          *)
(* (src/unnamed/part_000): the Campaign Identity Resolver                  *)
(* (getOnChainCampaignId, mapMarketIdToCampaignId), the Token Balance      *)
(* Reader (getTokenBalance), the Campaign Writer (createCampaignOnChain)   *)
(* and the Pool Reconciler (updateMarketPools).                            *)
(*                                                                         *)
(* Every exported function is an async function: it runs synchronously     *)
(* from one await to the next.  One action of the model is one such        *)
(* stretch of code, i.e. the completion of one awaited external call       *)
(* (with one of the outcomes that call can have) together with all the     *)
(* synchronous code that follows it up to the next await or the return.    *)
(*                                                                         *)
(* The functions share no in-process state, so each has its own            *)
(* specification (SpecHash, SpecResolver, SpecBalance, SpecWriter, and     *)
(* SpecPools with overlapping calls or SpecPoolsSolo with one call at a    *)
(* time); the variables of the other functions stay idle.                  *)
(***************************************************************************)
EXTENDS Integers, Sequences, FiniteSets, TLC

VARIABLES
    \* ---- mapMarketIdToCampaignId ----
    hInput,      \* marketId as the sequence of its UTF-16 code units
    hIdx,        \* number of characters the reduce has consumed
    hAcc,        \* the accumulator a of the reduce (a signed 32-bit integer)
    hPc,         \* "reduce" while the reduce runs, "done" once returned
    hResult,     \* the returned number (0 until the function returns)
    \* ---- getOnChainCampaignId ----
    rMarket,     \* the marketId argument
    rRemote,     \* remote store: marketId -> on_chain_id of the market record
    rCache,      \* localStorage: marketId -> value under market_<id>_onchain_id
    rRemote0,    \* the remote store when the call started
    rCache0,     \* localStorage when the call started
    rPc,         \* "fetch", "json", "done"
    rStep1,      \* what became of the remote lookup
    rOutcome,    \* how the call ended
    \* ---- getTokenBalance ----
    bProvider,   \* the provider argument (Null or a provider handle)
    bWallet,     \* the walletAddress argument ("" when missing)
    bBalance,    \* what balanceOf(walletAddress) answers on the token ledger
    bDecimals,   \* what decimals() answers on the token ledger
    bPc,         \* "entry", or the call awaited ("getSigner", ...), or "done"
    bCalls,      \* the external calls issued so far, in order
    bFailed,     \* the step that failed, NoValue if none
    bOutcome,    \* how the call ended
    \* ---- createCampaignOnChain ----
    numberOfCampaigns, \* the ledger's campaign count
    txState,     \* this call's transaction: "none", "pending", "mined", "reverted"
    myId,        \* the identifier the ledger assigned to this call's campaign
    othersAfter, \* campaigns other processes created after this call's campaign
    otherTotal,  \* campaigns other processes created during the run
    wPc,         \* "entry", or the call awaited ("createCampaign", ...), or "done"
    wCalls,      \* the ledger calls issued so far, in order
    wLogs,       \* receipt.logs of the confirmation, NoValue before it
    wCount,      \* the value read from numberOfCampaigns(), NoValue if not read
    wOthersAtRead, \* othersAfter at the time of the count read
    wError,      \* the underlying error caught by the outer catch, NoValue if none
    wOutcome,    \* how the call ended
    \* ---- updateMarketPools ----
    pools,       \* prediction_markets: marketId -> [yes_pool, no_pool]
    positions,   \* user_positions: the rows in insertion order
    pPc,         \* per call: "start", the operation awaited, or "done"
    pArgs,       \* per call: [marketId, position, amount]
    pMarket,     \* per call: the row the select returned (the local `market`)
    pOps,        \* per call: the store operations issued so far, in order
    pEnd,        \* per call: how it ended
    pLast,       \* the most recently started call (0 before the first)
    prePools,    \* pools when that call started
    prePositions \* positions when that call started

hashVars     == <<hInput, hIdx, hAcc, hPc, hResult>>
resolverVars == <<rMarket, rRemote, rCache, rRemote0, rCache0, rPc, rStep1, rOutcome>>
balanceVars  == <<bProvider, bWallet, bBalance, bDecimals, bPc, bCalls, bFailed, bOutcome>>
writerVars   == <<numberOfCampaigns, txState, myId, othersAfter, otherTotal, wPc,
                  wCalls, wLogs, wCount, wOthersAtRead, wError, wOutcome>>
poolVars     == <<pools, positions, pPc, pArgs, pMarket, pOps, pEnd,
                  pLast, prePools, prePositions>>
vars == <<hashVars, resolverVars, balanceVars, writerVars, poolVars>>

\* JavaScript's null / undefined, and "not yet set" for the history variables.
Null    == "null"
NoValue == "none"

-----------------------------------------------------------------------------
(***************************************************************************)
(* Idle states of the components, used by the specifications of the others *)
(***************************************************************************)
HashIdle ==
    /\ hInput = <<>> /\ hIdx = 0 /\ hAcc = 0 /\ hPc = "done" /\ hResult = 0

ResolverIdle ==
    /\ rMarket = NoValue /\ rRemote = <<>> /\ rCache = <<>>
    /\ rRemote0 = <<>> /\ rCache0 = <<>>
    /\ rPc = "done" /\ rStep1 = NoValue /\ rOutcome = [kind |-> NoValue]

BalanceIdle ==
    /\ bProvider = Null /\ bWallet = "" /\ bBalance = 0 /\ bDecimals = 0
    /\ bPc = "done" /\ bCalls = <<>> /\ bFailed = NoValue
    /\ bOutcome = [kind |-> NoValue]

WriterIdle ==
    /\ numberOfCampaigns = 0 /\ txState = "none" /\ myId = 0
    /\ othersAfter = 0 /\ otherTotal = 0 /\ wPc = "done" /\ wCalls = <<>>
    /\ wLogs = [kind |-> NoValue] /\ wCount = 0 /\ wOthersAtRead = 0
    /\ wError = [kind |-> NoValue] /\ wOutcome = [kind |-> NoValue]

PoolsIdle ==
    /\ pools = <<>> /\ positions = <<>> /\ pPc = <<>> /\ pArgs = <<>>
    /\ pMarket = <<>> /\ pOps = <<>> /\ pEnd = <<>>
    /\ pLast = 0 /\ prePools = <<>> /\ prePositions = <<>>

-----------------------------------------------------------------------------
(***************************************************************************)
(* mapMarketIdToCampaignId (part_000:133-142)                              *)
(***************************************************************************)
\* Longest marketId of the model.
MaxIdLen == 6

\* UTF-16 code units the marketId is drawn from: '-', 'z' and U+FFFF.
CharCodes == {45, 122, 65535}

MarketIdStrings == UNION {[1..n -> CharCodes] : n \in 0..MaxIdLen}

\* The 16-bit halves of the two's complement representation of a.
Lo16(a) == a % 65536
Hi16(a) == (a \div 65536) % 65536

\* ToInt32 of the 32-bit pattern hi:lo.
Int32FromHalves(hi, lo) ==
    IF hi >= 32768 THEN (hi - 65536) * 65536 + lo ELSE hi * 65536 + lo

\* The reduce callback: a = ((a << 5) - a) + b.charCodeAt(0); return a & a.
\* (a << 5) - a + code is 31*a + code, and a & a is ToInt32 of it.  The
\* product is taken on the 16-bit halves of a, so that no intermediate value
\* leaves the 32-bit range.
HashStep(a, code) ==
    LET lo == Lo16(a) * 31 + code
        hi == Hi16(a) * 31 + (lo \div 65536)
    IN  Int32FromHalves(hi % 65536, lo % 65536)

\* JavaScript's %: the remainder takes the sign of the dividend.
JsRem(a, n) ==
    IF a >= 0 THEN a % n
    ELSE LET f == a % n IN IF f = 0 THEN 0 ELSE f - n

Abs(x) == IF x < 0 THEN 0 - x ELSE x

CampaignIdOf_NoAbs(hashCode) == JsRem(hashCode, 1000)

\* return Math.abs(hashCode % 1000)
CampaignIdOf(hashCode) == Abs(JsRem(hashCode, 1000))

InitHash ==
    /\ hInput \in MarketIdStrings
    /\ hIdx = 0
    /\ hAcc = 0
    /\ hPc = "reduce"
    /\ hResult = 0
    /\ ResolverIdle /\ BalanceIdle /\ WriterIdle /\ PoolsIdle

\* One call of the reduce callback.
ReduceStep ==
    /\ hPc = "reduce"
    /\ hIdx < Len(hInput)
    /\ hAcc' = HashStep(hAcc, hInput[hIdx + 1])
    /\ hIdx' = hIdx + 1
    /\ UNCHANGED <<hInput, hPc, hResult>>
    /\ UNCHANGED <<resolverVars, balanceVars, writerVars, poolVars>>

\* The reduce is over: the function returns.
HashReturn ==
    /\ hPc = "reduce"
    /\ hIdx = Len(hInput)
    /\ hResult' = CampaignIdOf(hAcc)
    /\ hPc' = "done"
    /\ UNCHANGED <<hInput, hIdx, hAcc>>
    /\ UNCHANGED <<resolverVars, balanceVars, writerVars, poolVars>>

NextHash == ReduceStep \/ HashReturn

SpecHash == InitHash /\ [][NextHash]_vars

\* The rolling hash as the spec states it, hash = hash*31 + charCode wrapped
\* to 32 bits after every character, on a prefix of the input.
RECURSIVE RollingHash(_, _)
RollingHash(s, n) ==
    IF n = 0 THEN 0 ELSE HashStep(RollingHash(s, n - 1), s[n])

\* C8: the result of mapMarketIdToCampaignId is an integer r with
\* 0 <= r < 1000 that is fixed by the input string (it is the reduction of
\* the wrapped rolling hash of exactly that string), also when the hash
\* overflowed or is negative; the empty string gives 0.
C8_HashInRange ==
    /\ hAcc \in -2147483647 - 1 .. 2147483647
    /\ hAcc = RollingHash(hInput, hIdx)
    /\ hPc = "done" =>
         /\ hResult \in 0..999
         /\ hIdx = Len(hInput)
         /\ hResult = Abs(JsRem(RollingHash(hInput, Len(hInput)), 1000))
         /\ hInput = <<>> => hResult = 0

\* A string whose hash wrapped to a negative 32-bit value has been reduced.
C8_Witness ==
    /\ hPc = "done"
    /\ hAcc < 0
    /\ JsRem(hAcc, 1000) < 0
    /\ hResult \in 1..999

-----------------------------------------------------------------------------
(***************************************************************************)
(* getOnChainCampaignId (part_000:105-130)                                 *)
(***************************************************************************)
Undefined == "undefined"

\* Market identifiers of the model.
Markets == {"m1", "m2"}

\* on_chain_id of a market record in the remote store: missing, empty or set.
RemoteIds == {Undefined, "", "42"}

\* localStorage.getItem(...): null when the key is missing, else the string.
CachedIds == {Null, "", "7"}

\* JavaScript truthiness of a string-or-null value.
Truthy(v) == v \notin {Null, Undefined, ""}

Return(v) == [kind |-> "return", value |-> v]

\* catch (error) { console.error(...); return null; }
ResolverCatch == Return(Null)

\* const storedId = localStorage.getItem(`market_${marketId}_onchain_id`);
\* if (storedId) return storedId;  return null;
LocalFallback(marketId) ==
    IF Truthy(rCache[marketId]) THEN Return(rCache[marketId]) ELSE Return(Null)

RemoteHit_EmptyCounts(onChainId) == onChainId # Undefined

\* if (data.on_chain_id)
RemoteHit(onChainId) == Truthy(onChainId)

InitResolver ==
    /\ rMarket \in Markets
    /\ rRemote \in [Markets -> RemoteIds]
    /\ rCache \in [Markets -> CachedIds]
    /\ rRemote0 = rRemote
    /\ rCache0 = rCache
    /\ rPc = "fetch"
    /\ rStep1 = NoValue
    /\ rOutcome = [kind |-> NoValue]
    /\ HashIdle /\ BalanceIdle /\ WriterIdle /\ PoolsIdle

\* await fetch(...) rejects (network failure): control passes to the catch.
FetchThrows ==
    /\ rPc = "fetch"
    /\ rStep1' = "fetchThrew"
    /\ rOutcome' = ResolverCatch
    /\ rPc' = "done"
    /\ UNCHANGED <<rMarket, rRemote, rCache, rRemote0, rCache0>>
    /\ UNCHANGED <<hashVars, balanceVars, writerVars, poolVars>>

\* await fetch(...) resolves with response.ok false: the if is skipped and
\* the localStorage lookup runs.
FetchNotOk ==
    /\ rPc = "fetch"
    /\ rStep1' = "notOk"
    /\ rOutcome' = LocalFallback(rMarket)
    /\ rPc' = "done"
    /\ UNCHANGED <<rMarket, rRemote, rCache, rRemote0, rCache0>>
    /\ UNCHANGED <<hashVars, balanceVars, writerVars, poolVars>>

\* await fetch(...) resolves with response.ok true: response.json() is awaited.
FetchOk ==
    /\ rPc = "fetch"
    /\ rPc' = "json"
    /\ UNCHANGED <<rMarket, rRemote, rCache, rRemote0, rCache0, rStep1, rOutcome>>
    /\ UNCHANGED <<hashVars, balanceVars, writerVars, poolVars>>

\* await response.json() rejects (the body is not JSON): control passes to
\* the catch.
JsonThrows ==
    /\ rPc = "json"
    /\ rStep1' = "parseFailed"
    /\ rOutcome' = ResolverCatch
    /\ rPc' = "done"
    /\ UNCHANGED <<rMarket, rRemote, rCache, rRemote0, rCache0>>
    /\ UNCHANGED <<hashVars, balanceVars, writerVars, poolVars>>

\* await response.json() resolves with the market record.
JsonOk ==
    /\ rPc = "json"
    /\ rStep1' = "ok"
    /\ rOutcome' = IF RemoteHit(rRemote[rMarket])
                   THEN Return(rRemote[rMarket])
                   ELSE LocalFallback(rMarket)
    /\ rPc' = "done"
    /\ UNCHANGED <<rMarket, rRemote, rCache, rRemote0, rCache0>>
    /\ UNCHANGED <<hashVars, balanceVars, writerVars, poolVars>>

NextResolver == FetchThrows \/ FetchNotOk \/ FetchOk \/ JsonThrows \/ JsonOk

SpecResolver == InitResolver /\ [][NextResolver]_vars

RemoteFailed == rStep1 \in {"fetchThrew", "notOk", "parseFailed"}

\* C1: whenever the remote lookup failed (fetch threw, the response was not
\* OK, or its body failed to parse) and localStorage holds a non-empty value
\* for the market, the call returns that cached value.
C1_FailureFallsThrough ==
    (rPc = "done" /\ RemoteFailed /\ Truthy(rCache[rMarket]))
        => rOutcome = Return(rCache[rMarket])

\* C2: first hit wins.  An OK answer with a non-empty on_chain_id is returned
\* whatever the cache holds; an OK answer without one (or with an empty one)
\* gives the cached value when there is one and null otherwise; the call
\* leaves the cache and the remote store as they were.
C2_FirstHitWins ==
    /\ rRemote = rRemote0 /\ rCache = rCache0
    /\ (rPc = "done" /\ rStep1 = "ok") =>
         /\ rRemote[rMarket] = "42" => rOutcome = Return("42")
         /\ rRemote[rMarket] \in {Undefined, ""} =>
              rOutcome = IF rCache[rMarket] = "7" THEN Return("7")
                         ELSE Return(Null)

\* The remote store answered "42" while the cache held "7".
C2_Witness ==
    /\ rPc = "done" /\ rStep1 = "ok"
    /\ rRemote[rMarket] = "42" /\ rCache[rMarket] = "7"
    /\ rOutcome = Return("42")

-----------------------------------------------------------------------------
(***************************************************************************)
(* getTokenBalance (part_000:50-71)                                        *)
(***************************************************************************)
\* Raw balances and decimal counts the token ledger may answer.  With at
\* most two decimals the value has an exact two-decimal representation, so
\* toFixed(2) only pads it.
Balances      == {0, 5, 123, 1000}
DecimalCounts == {0, 1, 2}

Digit(d) == CASE d = 0 -> "0" [] d = 1 -> "1" [] d = 2 -> "2" [] d = 3 -> "3"
              [] d = 4 -> "4" [] d = 5 -> "5" [] d = 6 -> "6" [] d = 7 -> "7"
              [] d = 8 -> "8" [] d = 9 -> "9"

\* The decimal representation of a natural number.
RECURSIVE NatToString(_)
NatToString(n) ==
    IF n < 10 THEN Digit(n) ELSE NatToString(n \div 10) \o Digit(n % 10)

\* BigInt.prototype.toString() of an integer.
IntToString(n) == IF n < 0 THEN "-" \o NatToString(0 - n) ELSE NatToString(n)

Pow10(k) == CASE k = 0 -> 1 [] k = 1 -> 10 [] k = 2 -> 100

\* parseFloat(ethers.formatUnits(balance, decimals)).toFixed(2)
FormatBalance(balance, decimals) ==
    LET hundredths == balance * Pow10(2 - decimals)
    IN  NatToString(hundredths \div 100) \o "."
            \o Digit((hundredths \div 10) % 10) \o Digit(hundredths % 10)

MissingArgs_ProviderOnly == bProvider = Null

\* if (!provider || !walletAddress)
MissingArgs == bProvider = Null \/ bWallet = ""

\* catch (error) { console.error(...); return "0"; }
BalanceCatch == Return("0")

InitBalance ==
    /\ bProvider \in {Null, "provider"}
    /\ bWallet \in {"", "0xWallet"}
    /\ bBalance \in Balances
    /\ bDecimals \in DecimalCounts
    /\ bPc = "entry"
    /\ bCalls = <<>>
    /\ bFailed = NoValue
    /\ bOutcome = [kind |-> NoValue]
    /\ HashIdle /\ ResolverIdle /\ WriterIdle /\ PoolsIdle

\* The call starts: the guard, then getSigner(provider) is awaited.
BalanceEntry ==
    /\ bPc = "entry"
    /\ IF MissingArgs
       THEN /\ bOutcome' = Return("0")
            /\ bPc' = "done"
            /\ UNCHANGED bCalls
       ELSE /\ bCalls' = Append(bCalls, "getSigner")
            /\ bPc' = "getSigner"
            /\ UNCHANGED bOutcome
    /\ UNCHANGED <<bProvider, bWallet, bBalance, bDecimals, bFailed>>
    /\ UNCHANGED <<hashVars, resolverVars, writerVars, poolVars>>

\* An awaited call rejects: control passes to the catch.
BalanceStepFails(step) ==
    /\ bPc = step
    /\ bFailed' = step
    /\ bOutcome' = BalanceCatch
    /\ bPc' = "done"
    /\ UNCHANGED <<bProvider, bWallet, bBalance, bDecimals, bCalls>>
    /\ UNCHANGED <<hashVars, resolverVars, writerVars, poolVars>>

\* getSigner resolves: the contract is built and balanceOf is awaited.
SignerOk ==
    /\ bPc = "getSigner"
    /\ bCalls' = Append(bCalls, "balanceOf")
    /\ bPc' = "balanceOf"
    /\ UNCHANGED <<bProvider, bWallet, bBalance, bDecimals, bFailed, bOutcome>>
    /\ UNCHANGED <<hashVars, resolverVars, writerVars, poolVars>>

\* balanceOf resolves: decimals is awaited.
BalanceOfOk ==
    /\ bPc = "balanceOf"
    /\ bCalls' = Append(bCalls, "decimals")
    /\ bPc' = "decimals"
    /\ UNCHANGED <<bProvider, bWallet, bBalance, bDecimals, bFailed, bOutcome>>
    /\ UNCHANGED <<hashVars, resolverVars, writerVars, poolVars>>

\* decimals resolves: the balance is formatted and returned.
DecimalsOk ==
    /\ bPc = "decimals"
    /\ bOutcome' = Return(FormatBalance(bBalance, bDecimals))
    /\ bPc' = "done"
    /\ UNCHANGED <<bProvider, bWallet, bBalance, bDecimals, bCalls, bFailed>>
    /\ UNCHANGED <<hashVars, resolverVars, writerVars, poolVars>>

NextBalance ==
    \/ BalanceEntry
    \/ \E step \in {"getSigner", "balanceOf", "decimals"} : BalanceStepFails(step)
    \/ SignerOk
    \/ BalanceOfOk
    \/ DecimalsOk

SpecBalance == InitBalance /\ [][NextBalance]_vars

\* C7: on every failure (null provider, empty wallet address, getSigner,
\* balanceOf or decimals failing) the call returns "0" and raises nothing;
\* without provider or wallet address no external call is made; decimals is
\* read only after balanceOf succeeded; no call is made twice.
C7_BalanceFailsToZero ==
    /\ bOutcome.kind # "throw"
    /\ (bProvider = Null \/ bWallet = "") => bCalls = <<>>
    /\ (bPc = "done" /\ (bProvider = Null \/ bWallet = "" \/ bFailed # NoValue))
          => bOutcome = Return("0")
    /\ bCalls \in {<<>>, <<"getSigner">>, <<"getSigner", "balanceOf">>,
                   <<"getSigner", "balanceOf", "decimals">>}
    /\ Len(bCalls) = 3 => bFailed \notin {"getSigner", "balanceOf"}
    /\ bFailed = "balanceOf" => Len(bCalls) = 2

\* decimals() failed after balanceOf succeeded, and "0" was returned.
C7_Witness ==
    /\ bPc = "done"
    /\ bFailed = "decimals"
    /\ bCalls = <<"getSigner", "balanceOf", "decimals">>
    /\ bOutcome = Return("0")

-----------------------------------------------------------------------------
(***************************************************************************)
(* createCampaignOnChain (part_000:184-259)                                *)
(*                                                                         *)
(* The ledger assigns identifiers 0, 1, 2, ... in creation order and       *)
(* numberOfCampaigns() reports how many it has assigned.  Other processes  *)
(* create campaigns on the same ledger at any time.                        *)
(***************************************************************************)
\* Campaigns other processes create during one call, at most.
MaxOther == 2

\* Log entries of one receipt, at most.
MaxLogs == 2

\* Campaigns on the ledger when the call starts.
PriorCounts == {0, 4, 9}

\* error.message of a rejected ledger call: missing, empty or set.
ErrorMessages == {Undefined, "", "execution reverted"}

GenericMessage == "Failed to create campaign on-chain"

Throw(message) == [kind |-> "throw", message |-> message]

\* A log entry of the receipt: one that contract.interface.parseLog throws
\* on, one it does not recognise (null), or the CampaignCreated event of
\* this call's campaign.
LogEntries(id) ==
    {[name |-> "unparseable", id |-> 0], [name |-> "unknown", id |-> 0],
     [name |-> "CampaignCreated", id |-> id]}

\* receipt.logs: an array of entries, or no array at all.
ReceiptLogs(id) ==
    {[kind |-> "malformed", entries |-> <<>>]} \cup
    {[kind |-> "logs", entries |-> e] :
        e \in UNION {[1..n -> LogEntries(id)] : n \in 0..MaxLogs}}

NotFound == [found |-> FALSE, id |-> 0]

\* The first entry that is a CampaignCreated event, if any.
RECURSIVE FindCreated(_, _)
FindCreated(entries, i) ==
    IF i > Len(entries) THEN NotFound
    ELSE IF entries[i].name = "CampaignCreated"
         THEN [found |-> TRUE, id |-> entries[i].id]
         ELSE FindCreated(entries, i + 1)

ParseLogs_AbortOnThrow(logs) ==
    IF logs.kind = "malformed"
           \/ \E i \in 1..Len(logs.entries) : logs.entries[i].name = "unparseable"
    THEN NotFound
    ELSE FindCreated(logs.entries, 1)

\* receipt.logs.map(log => { try { parseLog(log) } catch { null } })
\*             .find(log => log && log.name === 'CampaignCreated')
\* inside a try whose catch only warns: entries parseLog throws on or does
\* not recognise are skipped, and a receipt without a logs array finds nothing.
ParseLogs(logs) ==
    IF logs.kind = "malformed" THEN NotFound ELSE FindCreated(logs.entries, 1)

FallbackId_NoDecrement(totalCampaigns) == totalCampaigns

\* (totalCampaigns - 1n)
FallbackId(totalCampaigns) == totalCampaigns - 1

WriterCatch_AlwaysGeneric(message) == Throw(GenericMessage)

\* throw new Error(error.message || "Failed to create campaign on-chain")
WriterCatch(message) ==
    Throw(IF Truthy(message) THEN message ELSE GenericMessage)

InitWriter ==
    /\ numberOfCampaigns \in PriorCounts
    /\ txState = "none"
    /\ myId = 0
    /\ othersAfter = 0
    /\ otherTotal = 0
    /\ wPc = "entry"
    /\ wCalls = <<>>
    /\ wLogs = [kind |-> NoValue]
    /\ wCount = 0
    /\ wOthersAtRead = 0
    /\ wError = [kind |-> NoValue]
    /\ wOutcome = [kind |-> NoValue]
    /\ HashIdle /\ ResolverIdle /\ BalanceIdle /\ PoolsIdle

\* The call starts: contract.createCampaign(...) is awaited.
WriterEntry ==
    /\ wPc = "entry"
    /\ wCalls' = Append(wCalls, "createCampaign")
    /\ wPc' = "createCampaign"
    /\ UNCHANGED <<numberOfCampaigns, txState, myId, othersAfter, otherTotal,
                   wLogs, wCount, wOthersAtRead, wError, wOutcome>>
    /\ UNCHANGED <<hashVars, resolverVars, balanceVars, poolVars>>

\* The submission is acknowledged: the transaction is pending and tx.wait()
\* is awaited.
SubmitOk ==
    /\ wPc = "createCampaign"
    /\ txState' = "pending"
    /\ wCalls' = Append(wCalls, "wait")
    /\ wPc' = "wait"
    /\ UNCHANGED <<numberOfCampaigns, myId, othersAfter, otherTotal,
                   wLogs, wCount, wOthersAtRead, wError, wOutcome>>
    /\ UNCHANGED <<hashVars, resolverVars, balanceVars, poolVars>>

\* An awaited ledger call rejects: the outer catch throws the normalized
\* error.  tx.wait() rejects when the transaction reverted, and like the
\* other calls on a transport failure.
LedgerCallFails(step, message) ==
    /\ wPc = step
    /\ wError' = [kind |-> "error", step |-> step, message |-> message]
    /\ wOutcome' = WriterCatch(message)
    /\ wPc' = "done"
    /\ UNCHANGED <<numberOfCampaigns, txState, myId, othersAfter, otherTotal,
                   wCalls, wLogs, wCount, wOthersAtRead>>
    /\ UNCHANGED <<hashVars, resolverVars, balanceVars, poolVars>>

\* The ledger includes the pending transaction: this call's campaign gets
\* the next identifier.
Mine ==
    /\ txState = "pending"
    /\ txState' = "mined"
    /\ myId' = numberOfCampaigns
    /\ numberOfCampaigns' = numberOfCampaigns + 1
    /\ othersAfter' = 0
    /\ UNCHANGED <<otherTotal, wPc, wCalls, wLogs, wCount, wOthersAtRead,
                   wError, wOutcome>>
    /\ UNCHANGED <<hashVars, resolverVars, balanceVars, poolVars>>

\* The ledger includes the pending transaction and it reverts.
Revert ==
    /\ txState = "pending"
    /\ txState' = "reverted"
    /\ UNCHANGED <<numberOfCampaigns, myId, othersAfter, otherTotal, wPc, wCalls,
                   wLogs, wCount, wOthersAtRead, wError, wOutcome>>
    /\ UNCHANGED <<hashVars, resolverVars, balanceVars, poolVars>>

\* Another process creates a campaign.
OtherCreates ==
    /\ otherTotal < MaxOther
    /\ otherTotal' = otherTotal + 1
    /\ numberOfCampaigns' = numberOfCampaigns + 1
    /\ othersAfter' = IF txState = "mined" THEN othersAfter + 1 ELSE othersAfter
    /\ UNCHANGED <<txState, myId, wPc, wCalls, wLogs, wCount, wOthersAtRead,
                   wError, wOutcome>>
    /\ UNCHANGED <<hashVars, resolverVars, balanceVars, poolVars>>

\* tx.wait() resolves with the receipt of the mined transaction; its logs
\* are searched, and either the identifier is returned or
\* contract.numberOfCampaigns() is awaited.
WaitOk ==
    /\ wPc = "wait"
    /\ txState = "mined"
    /\ wLogs' \in ReceiptLogs(myId)
    /\ LET parsed == ParseLogs(wLogs') IN
         IF parsed.found
         THEN /\ wOutcome' = Return(IntToString(parsed.id))
              /\ wPc' = "done"
              /\ UNCHANGED wCalls
         ELSE /\ wCalls' = Append(wCalls, "numberOfCampaigns")
              /\ wPc' = "numberOfCampaigns"
              /\ UNCHANGED wOutcome
    /\ UNCHANGED <<numberOfCampaigns, txState, myId, othersAfter, otherTotal,
                   wCount, wOthersAtRead, wError>>
    /\ UNCHANGED <<hashVars, resolverVars, balanceVars, poolVars>>

\* numberOfCampaigns() resolves: count - 1 is returned.
CountOk ==
    /\ wPc = "numberOfCampaigns"
    /\ wCount' = numberOfCampaigns
    /\ wOthersAtRead' = othersAfter
    /\ wOutcome' = Return(IntToString(FallbackId(numberOfCampaigns)))
    /\ wPc' = "done"
    /\ UNCHANGED <<numberOfCampaigns, txState, myId, othersAfter, otherTotal,
                   wCalls, wLogs, wError>>
    /\ UNCHANGED <<hashVars, resolverVars, balanceVars, poolVars>>

NextWriter ==
    \/ WriterEntry
    \/ SubmitOk
    \/ \E step \in {"createCampaign", "wait", "numberOfCampaigns"} :
         \E message \in ErrorMessages : LedgerCallFails(step, message)
    \/ Mine
    \/ Revert
    \/ OtherCreates
    \/ WaitOk
    \/ CountOk

SpecWriter == InitWriter /\ [][NextWriter]_vars

HasCreatedEvent ==
    /\ wLogs.kind = "logs"
    /\ \E i \in 1..Len(wLogs.entries) : wLogs.entries[i].name = "CampaignCreated"

FirstCreatedId ==
    LET i == CHOOSE k \in 1..Len(wLogs.entries) :
                 /\ wLogs.entries[k].name = "CampaignCreated"
                 /\ \A j \in 1..(k - 1) : wLogs.entries[j].name # "CampaignCreated"
    IN  wLogs.entries[i].id

\* C3: an identifier is returned only after the confirmation was received;
\* it is the id of the first CampaignCreated event of the receipt, as a
\* string, and then the count is not read; when the receipt has no such
\* event (or its logs cannot be read) the count is read exactly once and
\* count - 1 is returned as a string.
C3_IdFromEventElseCount ==
    wOutcome.kind = "return" =>
        /\ txState = "mined"
        /\ wLogs.kind # NoValue
        /\ IF HasCreatedEvent
           THEN /\ wOutcome.value = IntToString(FirstCreatedId)
                /\ wCalls = <<"createCampaign", "wait">>
           ELSE /\ wOutcome.value = IntToString(wCount - 1)
                /\ wCalls = <<"createCampaign", "wait", "numberOfCampaigns">>

\* The event followed an entry parseLog throws on and was still used.
C3_Witness ==
    /\ wOutcome.kind = "return"
    /\ wLogs.kind = "logs"
    /\ Len(wLogs.entries) = 2
    /\ wLogs.entries[1].name = "unparseable"
    /\ wLogs.entries[2].name = "CampaignCreated"
    /\ myId = 9
    /\ wOutcome.value = "9"

\* C4: an error of the submission, the confirmation wait or the count read
\* ends the call with one thrown error carrying the underlying message, or
\* the generic message when there is none; nothing is returned and the
\* failed call is the last ledger call made, none being made twice.  A
\* receipt whose logs cannot be parsed raises nothing by itself.
C4_NormalizedError ==
    /\ wError.kind = "error" =>
         /\ wPc = "done"
         /\ wOutcome.kind = "throw"
         /\ wOutcome.message =
               IF wError.message \in {Undefined, ""}
               THEN "Failed to create campaign on-chain" ELSE wError.message
         /\ wCalls[Len(wCalls)] = wError.step
    /\ wOutcome.kind = "throw" => wError.kind = "error"
    /\ \A i, j \in 1..Len(wCalls) : wCalls[i] = wCalls[j] => i = j
    /\ (wLogs.kind = "malformed" /\ wError.kind # "error") =>
         wPc = "numberOfCampaigns" \/ wOutcome.kind = "return"

\* The count read failed with an error that has a message, after a receipt
\* whose logs could not be read.
C4_Witness ==
    /\ wPc = "done"
    /\ wLogs.kind = "malformed"
    /\ wError.kind = "error"
    /\ wError.step = "numberOfCampaigns"
    /\ wError.message = "execution reverted"
    /\ wOutcome = Throw("execution reverted")

\* C10 as stated: the returned string is the identifier the ledger assigned
\* to this call's campaign, on the event path and on the fallback path.
C10_ReturnsOwnId ==
    wOutcome.kind = "return" =>
        /\ wOutcome.value = IntToString(myId)
        /\ myId >= 0

\* C10 as amended: on the event path the returned string is the identifier
\* the ledger assigned to this call's campaign; on the fallback path it is
\* that identifier plus the number of campaigns other processes created
\* between the creation of this call's campaign and the count read (so it
\* is the call's own identifier exactly when there were none); it is never
\* negative.
C10_OwnIdUnlessRaced ==
    wOutcome.kind = "return" =>
        /\ txState = "mined"
        /\ myId >= 0
        /\ IF HasCreatedEvent
           THEN wOutcome.value = IntToString(myId)
           ELSE /\ wOutcome.value = IntToString(myId + wOthersAtRead)
                /\ wOthersAtRead \in 0..otherTotal

\* The fallback read the count after another process had created a campaign.
C10_Witness ==
    /\ wOutcome.kind = "return"
    /\ ~HasCreatedEvent
    /\ wOthersAtRead = 1
    /\ myId = 9
    /\ wOutcome.value = "10"

-----------------------------------------------------------------------------
(***************************************************************************)
(* updateMarketPools (part_000:285-337)                                    *)
(*                                                                         *)
(* The side store applies each operation atomically; calls of              *)
(* updateMarketPools (from this or another browser) interleave at their    *)
(* awaits.                                                                 *)
(***************************************************************************)
\* Calls of updateMarketPools in one run.
NumCalls == 2

\* Largest amount of a prediction.
MaxAmount == 2

Calls   == 1..NumCalls
Sides   == {"yes", "no"}
Amounts == 1..MaxAmount

\* The prediction_markets rows when the run starts.
InitPools == [m \in Markets |-> [yes_pool |-> 10, no_pool |-> 5]]

\* localStorage.getItem('walletAddress')
WalletAddress == "0xWallet"

PoolUpdates_BothSides(position, market, amount) ==
    [yes_pool |-> market.yes_pool + amount, no_pool |-> market.no_pool + amount]

\* const updates = position === 'yes'
\*   ? { yes_pool: Number(market.yes_pool) + amount }
\*   : { no_pool: Number(market.no_pool) + amount };
PoolUpdates(position, market, amount) ==
    IF position = "yes"
    THEN [c \in {"yes_pool"} |-> market.yes_pool + amount]
    ELSE [c \in {"no_pool"} |-> market.no_pool + amount]

\* .update(updates).eq('id', marketId): the named columns of that row.
ApplyUpdate(table, marketId, updates) ==
    [table EXCEPT ![marketId] =
        [col \in DOMAIN table[marketId] |->
            IF col \in DOMAIN updates THEN updates[col] ELSE table[marketId][col]]]

\* The row inserted into user_positions.
PositionRow(marketId, position, amount) ==
    [market_id |-> marketId, user_wallet_address |-> WalletAddress,
     position_type |-> position, amount |-> amount]

NotFailed == [step |-> NoValue, how |-> NoValue]

\* Every path out of updateMarketPools resolves the promise with undefined:
\* the early returns, the end of the try and the catch, which only logs.
PoolsResolved == Return(Undefined)

InitPoolsState ==
    /\ pools = InitPools
    /\ positions = <<>>
    /\ pPc = [c \in Calls |-> "start"]
    /\ pArgs = [c \in Calls |-> [marketId |-> NoValue, position |-> NoValue, amount |-> 0]]
    /\ pMarket = [c \in Calls |-> [yes_pool |-> 0, no_pool |-> 0]]
    /\ pOps = [c \in Calls |-> <<>>]
    /\ pEnd = [c \in Calls |-> [failed |-> NotFailed, outcome |-> [kind |-> NoValue]]]
    /\ pLast = 0
    /\ prePools = InitPools
    /\ prePositions = <<>>
    /\ HashIdle /\ ResolverIdle /\ BalanceIdle /\ WriterIdle

\* updateMarketPools(marketId, position, amount) is called: the select is
\* awaited.  Calls are numbered in the order they start.
PoolsEntry(c, marketId, position, amount) ==
    /\ pPc[c] = "start"
    /\ c = pLast + 1
    /\ pArgs' = [pArgs EXCEPT ![c] =
                    [marketId |-> marketId, position |-> position, amount |-> amount]]
    /\ pOps' = [pOps EXCEPT ![c] = Append(@, "select")]
    /\ pPc' = [pPc EXCEPT ![c] = "select"]
    /\ pLast' = c
    /\ prePools' = pools
    /\ prePositions' = positions
    /\ UNCHANGED <<pools, positions, pMarket, pEnd>>
    /\ UNCHANGED <<hashVars, resolverVars, balanceVars, writerVars>>

\* The select answers with the row: the new pool value is computed from it
\* and the update is awaited.
SelectOk(c) ==
    /\ pPc[c] = "select"
    /\ pMarket' = [pMarket EXCEPT ![c] = pools[pArgs[c].marketId]]
    /\ pOps' = [pOps EXCEPT ![c] = Append(@, "update")]
    /\ pPc' = [pPc EXCEPT ![c] = "update"]
    /\ UNCHANGED <<pools, positions, pArgs, pEnd, pLast, prePools, prePositions>>
    /\ UNCHANGED <<hashVars, resolverVars, balanceVars, writerVars>>

\* The select fails, by answering with an error (how = "error":
\* if (fetchError) { console.error(...); return; }) or by rejecting (how =
\* "throw": the catch logs).  The call ends.
SelectFails(c, how) ==
    /\ pPc[c] = "select"
    /\ pEnd' = [pEnd EXCEPT ![c] =
                   [failed |-> [step |-> "select", how |-> how], outcome |-> PoolsResolved]]
    /\ pPc' = [pPc EXCEPT ![c] = "done"]
    /\ UNCHANGED <<pools, positions, pArgs, pMarket, pOps, pLast, prePools, prePositions>>
    /\ UNCHANGED <<hashVars, resolverVars, balanceVars, writerVars>>

UpdateFails_NoReturn(c, how) ==
    /\ pPc[c] = "update"
    /\ pEnd' = [pEnd EXCEPT ![c] =
                   [failed |-> [step |-> "update", how |-> how],
                    outcome |-> [kind |-> NoValue]]]
    /\ pOps' = [pOps EXCEPT ![c] = Append(@, "insert")]
    /\ pPc' = [pPc EXCEPT ![c] = "insert"]
    /\ UNCHANGED <<pools, positions, pArgs, pMarket, pLast, prePools, prePositions>>
    /\ UNCHANGED <<hashVars, resolverVars, balanceVars, writerVars>>

\* The update fails, leaving the row as it was:
\* if (updateError) { console.error(...); return; }, or the catch.
UpdateFails(c, how) ==
    /\ pPc[c] = "update"
    /\ pEnd' = [pEnd EXCEPT ![c] =
                   [failed |-> [step |-> "update", how |-> how], outcome |-> PoolsResolved]]
    /\ pPc' = [pPc EXCEPT ![c] = "done"]
    /\ UNCHANGED <<pools, positions, pArgs, pMarket, pOps, pLast, prePools, prePositions>>
    /\ UNCHANGED <<hashVars, resolverVars, balanceVars, writerVars>>

\* The insert fails, adding no row: if (positionError) console.error(...),
\* or the catch.  The call ends.
InsertFails(c, how) ==
    /\ pPc[c] = "insert"
    /\ pEnd' = [pEnd EXCEPT ![c] =
                   [failed |-> [step |-> "insert", how |-> how], outcome |-> PoolsResolved]]
    /\ pPc' = [pPc EXCEPT ![c] = "done"]
    /\ UNCHANGED <<pools, positions, pArgs, pMarket, pOps, pLast, prePools, prePositions>>
    /\ UNCHANGED <<hashVars, resolverVars, balanceVars, writerVars>>

\* The update succeeds: the row's column is overwritten with the value
\* computed from the row read earlier, and the insert is awaited.
UpdateOk(c) ==
    /\ pPc[c] = "update"
    /\ pools' = ApplyUpdate(pools, pArgs[c].marketId,
                    PoolUpdates(pArgs[c].position, pMarket[c], pArgs[c].amount))
    /\ pOps' = [pOps EXCEPT ![c] = Append(@, "insert")]
    /\ pPc' = [pPc EXCEPT ![c] = "insert"]
    /\ UNCHANGED <<positions, pArgs, pMarket, pEnd, pLast, prePools, prePositions>>
    /\ UNCHANGED <<hashVars, resolverVars, balanceVars, writerVars>>

\* The insert succeeds: the position row is appended and the call ends.
InsertOk(c) ==
    /\ pPc[c] = "insert"
    /\ positions' = Append(positions,
                       PositionRow(pArgs[c].marketId, pArgs[c].position, pArgs[c].amount))
    /\ pEnd' = [pEnd EXCEPT ![c] = [failed |-> @.failed, outcome |-> PoolsResolved]]
    /\ pPc' = [pPc EXCEPT ![c] = "done"]
    /\ UNCHANGED <<pools, pArgs, pMarket, pOps, pLast, prePools, prePositions>>
    /\ UNCHANGED <<hashVars, resolverVars, balanceVars, writerVars>>

Hows == {"error", "throw"}

\* The steps of call c after its entry.
PoolsStep(c) ==
    \/ SelectOk(c)
    \/ \E how \in Hows : SelectFails(c, how)
    \/ UpdateOk(c)
    \/ \E how \in Hows : UpdateFails(c, how)
    \/ InsertOk(c)
    \/ \E how \in Hows : InsertFails(c, how)

PoolsEnter(c) ==
    \E marketId \in Markets, position \in Sides, amount \in Amounts :
        PoolsEntry(c, marketId, position, amount)

\* Calls overlap freely.
NextPools == \E c \in Calls : PoolsEnter(c) \/ PoolsStep(c)

SpecPools == InitPoolsState /\ [][NextPools]_vars

NoCallRunning == \A c \in Calls : pPc[c] \in {"start", "done"}

\* A call starts while no other is running.
PoolsEnterSolo(c) == NoCallRunning /\ PoolsEnter(c)

\* One call at a time.
NextPoolsSolo == \E c \in Calls : PoolsEnterSolo(c) \/ PoolsStep(c)

SpecPoolsSolo == InitPoolsState /\ [][NextPoolsSolo]_vars

LastDone == pLast # 0 /\ pPc[pLast] = "done"

\* C5: a call whose three store operations succeeded, with no other writer,
\* added its amount to the pool of its side only, left the other pool and
\* the other markets' rows alone, and appended exactly one position row with
\* its market, side and amount, the earlier rows being kept as they were.
C5_OneSideOneRow ==
    (LastDone /\ pEnd[pLast].failed = NotFailed) =>
        LET a == pArgs[pLast]
            col == IF a.position = "yes" THEN "yes_pool" ELSE "no_pool"
            other == IF a.position = "yes" THEN "no_pool" ELSE "yes_pool"
        IN  /\ pools[a.marketId][col] = prePools[a.marketId][col] + a.amount
            /\ pools[a.marketId][other] = prePools[a.marketId][other]
            /\ \A m \in Markets \ {a.marketId} : pools[m] = prePools[m]
            /\ Len(positions) = Len(prePositions) + 1
            /\ SubSeq(positions, 1, Len(prePositions)) = prePositions
            /\ positions[Len(positions)].market_id = a.marketId
            /\ positions[Len(positions)].position_type = a.position
            /\ positions[Len(positions)].amount = a.amount

\* A second call added 2 to the no pool of m1 after a first call's row.
C5_Witness ==
    /\ LastDone /\ pEnd[pLast].failed = NotFailed
    /\ pArgs[pLast] = [marketId |-> "m1", position |-> "no", amount |-> 2]
    /\ Len(positions) = 2
    /\ pools["m1"].no_pool = 7

\* C6: the call never raises.  A failed read issues no write and leaves the
\* store as it was; a failed pool update issues no insert; a failed insert
\* leaves the pool update applied with no position row for it.  No store
\* operation is issued twice by one call.
C6_FailureStops ==
    /\ \A c \in Calls :
         /\ pEnd[c].outcome.kind # "throw"
         /\ pPc[c] = "done" => pEnd[c].outcome = Return(Undefined)
         /\ pOps[c] \in {<<>>, <<"select">>, <<"select", "update">>,
                         <<"select", "update", "insert">>}
         /\ pEnd[c].failed.step = "select" => pOps[c] = <<"select">>
         /\ pEnd[c].failed.step = "update" => pOps[c] = <<"select", "update">>
    /\ LastDone =>
         LET a == pArgs[pLast]
             col == IF a.position = "yes" THEN "yes_pool" ELSE "no_pool"
             step == pEnd[pLast].failed.step
         IN  /\ step = "select" => pools = prePools /\ positions = prePositions
             /\ step = "update" => positions = prePositions
             /\ step = "insert" =>
                  /\ pools[a.marketId][col] = prePools[a.marketId][col] + a.amount
                  /\ positions = prePositions

\* The insert failed after the pool update had been applied.
C6_Witness ==
    /\ LastDone
    /\ pEnd[pLast].failed.step = "insert"
    /\ pools[pArgs[pLast].marketId] # prePools[pArgs[pLast].marketId]
    /\ positions = prePositions

RECURSIVE SumAmounts(_, _, _)
\* The sum of the amounts of the position rows of one market and side.
SumAmounts(rows, marketId, position) ==
    IF rows = <<>> THEN 0
    ELSE (IF rows[1].market_id = marketId /\ rows[1].position_type = position
          THEN rows[1].amount ELSE 0)
         + SumAmounts(Tail(rows), marketId, position)

AllCallsSucceeded ==
    \A c \in Calls : pPc[c] = "done" /\ pEnd[c].failed = NotFailed

\* C9: when all calls have run with every store operation succeeding, in
\* whatever interleaving, each pool has grown by the sum of the amounts of
\* the position rows appended for its market and side.
C9_NoLostUpdate ==
    AllCallsSucceeded =>
        \A m \in Markets :
            /\ pools[m].yes_pool = InitPools[m].yes_pool + SumAmounts(positions, m, "yes")
            /\ pools[m].no_pool = InitPools[m].no_pool + SumAmounts(positions, m, "no")

=============================================================================
